---- MODULE Spec2Model ----
(***************************************************************************)
(* qtrader/envs/data_loader.py: the market data wrapper `Finance` and the  *)
(* vector autoregressive wrapper `VAR`.                                    *)
(*                                                                         *)
(* One call of one entry point (Finance.Prices, Finance.Returns,           *)
(* VAR.Returns, VAR.Prices) is followed statement by statement.  Tables    *)
(* are pandas.DataFrame values: a sequence of column names and a sequence  *)
(* of rows, each a date and one value per column.  Values are exact        *)
(* rationals <<numerator, denominator>>; the missing value NaN is <<0,0>>. *)
(***************************************************************************)
EXTENDS Integers, Sequences, FiniteSets

\* ---------------------------------------------------------------- bounds
MaxTickers == 3
MaxDate == 3
MaxOrder == 2
MaxSeed == 2

Tickers == {"A", "B", "C"}
Dates == 1..MaxDate
Freqs == {1, 2}

\* ------------------------------------------------------------- rationals
NaN == <<0, 0>>

IsNaN(x) == x[2] = 0

Abs(n) == IF n < 0 THEN 0 - n ELSE n

RECURSIVE GCD(_, _)
GCD(a, b) == IF b = 0 THEN a ELSE GCD(b, a % b)

Rat(n, d) ==
    LET s == IF d < 0 THEN 0 - 1 ELSE 1
        g == GCD(Abs(n), Abs(d))
    IN  IF d = 0 THEN NaN ELSE <<(s * n) \div g, (s * d) \div g>>

RAdd(x, y) ==
    IF IsNaN(x) \/ IsNaN(y) THEN NaN
    ELSE Rat(x[1] * y[2] + y[1] * x[2], x[2] * y[2])

RSub(x, y) ==
    IF IsNaN(x) \/ IsNaN(y) THEN NaN
    ELSE Rat(x[1] * y[2] - y[1] * x[2], x[2] * y[2])

RMul(x, y) ==
    IF IsNaN(x) \/ IsNaN(y) THEN NaN
    ELSE Rat(x[1] * y[1], x[2] * y[2])

RDiv(x, y) ==
    IF IsNaN(x) \/ IsNaN(y) THEN NaN
    ELSE Rat(x[1] * y[2], x[2] * y[1])

One == <<1, 1>>

\* ---------------------------------------------------------------- tables
NoTable == [cols |-> <<>>, rows |-> <<>>]

Range(s) == {s[k] : k \in DOMAIN s}

IndexOf(s, x) == CHOOSE k \in DOMAIN s : s[k] = x

DatesOf(T) == [k \in DOMAIN T.rows |-> T.rows[k].date]

HasNaN(T) == \E k \in DOMAIN T.rows : \E j \in DOMAIN T.cols : IsNaN(T.rows[k].v[j])

\* ------------------------------------------------------- the live source
Code(t) == CASE t = "A" -> 1 [] t = "B" -> 2 [] OTHER -> 3

\* The adjusted close the provider holds for ticker t on date d.
Quote(t, d) == 1 + ((Code(t) * d + d * d) % 7)

\* The dates the provider holds for each ticker: A trades every day, B has
\* no observation on even days, C is listed from day 2 on.
Listing(t) ==
    CASE t = "A" -> Dates
      [] t = "B" -> {d \in Dates : d % 2 = 1}
      [] OTHER -> {d \in Dates : d >= 2}

NoDate == 0

InRange(d, lo, hi) == (lo = NoDate \/ d >= lo) /\ (hi = NoDate \/ d <= hi)

RECURSIVE Ascending(_)
Ascending(S) ==
    IF S = {} THEN <<>>
    ELSE LET m == CHOOSE x \in S : \A y \in S : x <= y
         IN  <<m>> \o Ascending(S \ {m})

\* quandl.get(f'WIKI/{ticker}', start_date=..., end_date=...): the frame of
\* the ticker's observations in the range, oldest first.  The frame is
\* date-indexed also when it holds no row.
quandl_get(ticker, lo, hi) ==
    LET ds == Ascending({d \in Listing(ticker) : InRange(d, lo, hi)})
    IN  [k \in DOMAIN ds |->
            [date |-> ds[k],
             Close |-> Rat(Quote(ticker, ds[k]) + 1, 1),
             AdjClose |-> Rat(Quote(ticker, ds[k]), 1)]]

\* tmp_df[cls._col]: the 'Adj. Close' series of a fetched frame.
_col(frame) == [k \in DOMAIN frame |-> [date |-> frame[k].date, x |-> frame[k].AdjClose]]

\* --------------------------------------------------------- pandas pieces
\* The union of the series' indexes, in order of first appearance.
RECURSIVE UnionIndex(_, _)
UnionIndex(data, acc) ==
    IF data = <<>> THEN acc
    ELSE LET s == Head(data).series
             new == SelectSeq([k \in DOMAIN s |-> s[k].date],
                              LAMBDA d : d \notin Range(acc))
         IN  UnionIndex(Tail(data), acc \o new)

SeriesAt(s, d) ==
    IF \E k \in DOMAIN s : s[k].date = d
    THEN s[CHOOSE k \in DOMAIN s : s[k].date = d].x
    ELSE NaN

\* pd.DataFrame(data): one column per key in insertion order, rows aligned
\* on the union of the indexes, NaN where a series has no observation.
DataFrame(data) ==
    LET idx == UnionIndex(data, <<>>)
    IN  [cols |-> [j \in DOMAIN data |-> data[j].ticker],
         rows |-> [k \in DOMAIN idx |->
                    [date |-> idx[k],
                     v |-> [j \in DOMAIN data |-> SeriesAt(data[j].series, idx[k])]]]]

RECURSIVE InsertRow(_, _)
InsertRow(sorted, r) ==
    IF sorted = <<>> THEN <<r>>
    ELSE IF r.date < Head(sorted).date THEN <<r>> \o sorted
    ELSE <<Head(sorted)>> \o InsertRow(Tail(sorted), r)

RECURSIVE SortRows(_)
SortRows(rows) ==
    IF rows = <<>> THEN <<>>
    ELSE InsertRow(SortRows(Tail(rows)), Head(rows))

\* df.sort_index(ascending=True)
sort_index(T) == [T EXCEPT !.rows = SortRows(T.rows)]

Bin(d, f) == (d - 1) \div f

\* The last non-missing value of column j among rows[1..k] that fall in
\* bin b; NaN when there is none.
RECURSIVE LastInBin(_, _, _, _, _)
LastInBin(rows, k, j, b, f) ==
    IF k = 0 THEN NaN
    ELSE IF Bin(rows[k].date, f) = b /\ ~IsNaN(rows[k].v[j]) THEN rows[k].v[j]
    ELSE LastInBin(rows, k - 1, j, b, f)

\* df.resample(freq).last() of a table sorted by date: one row per period
\* from the first observation's period to the last one's, labelled by the
\* period's first date.  A frequency is a period of f consecutive dates.
resample_last(T, f) ==
    IF T.rows = <<>> THEN T
    ELSE LET lo == Bin(T.rows[1].date, f)
             hi == Bin(T.rows[Len(T.rows)].date, f)
         IN  [cols |-> T.cols,
              rows |-> [n \in 1..(hi - lo + 1) |->
                         [date |-> (lo + n - 1) * f + 1,
                          v |-> [j \in DOMAIN T.cols |->
                                  LastInBin(T.rows, Len(T.rows), j, lo + n - 1, f)]]]]

\* fillna(method='pad'): the last non-missing value at or before row k.
RECURSIVE Pad(_, _, _)
Pad(rows, k, j) ==
    IF k = 0 THEN NaN
    ELSE IF ~IsNaN(rows[k].v[j]) THEN rows[k].v[j]
    ELSE Pad(rows, k - 1, j)

\* df.pct_change(), mutated into df.diff(): the change itself, not divided
\* by the previous price.
pct_change_diff(T) ==
    [cols |-> T.cols,
     rows |-> [k \in DOMAIN T.rows |->
                [date |-> T.rows[k].date,
                 v |-> [j \in DOMAIN T.cols |->
                         IF k = 1 THEN NaN
                         ELSE RSub(Pad(T.rows, k, j), Pad(T.rows, k - 1, j))]]]]

\* df.pct_change(): missing prices are padded forward, then each row is
\* divided by the previous one, minus 1; the first row has no predecessor.
\* (fill_method='pad' is the default the call at line 105 relies on.)
pct_change(T) ==
    [cols |-> T.cols,
     rows |-> [k \in DOMAIN T.rows |->
                [date |-> T.rows[k].date,
                 v |-> [j \in DOMAIN T.cols |->
                         IF k = 1 THEN NaN
                         ELSE RSub(RDiv(Pad(T.rows, k, j), Pad(T.rows, k - 1, j)), One)]]]]

\* df[1:]
DropFirst(T) == [T EXCEPT !.rows = IF T.rows = <<>> THEN <<>> ELSE Tail(T.rows)]

\* df.loc[start_date:end_date] on a sorted date index: both ends included,
\* None leaves the side open.
loc(T, lo, hi) == [T EXCEPT !.rows = SelectSeq(T.rows, LAMBDA r : InRange(r.date, lo, hi))]

\* df[union]: the named columns, in the order they are named.
Select(T, names) ==
    [cols |-> names,
     rows |-> [k \in DOMAIN T.rows |->
                [date |-> T.rows[k].date,
                 v |-> [j \in DOMAIN names |-> T.rows[k].v[IndexOf(T.cols, names[j])]]]]]

\* (df + 1).cumprod(), column by column.
RECURSIVE CumProdAt(_, _, _)
CumProdAt(rows, k, j) ==
    IF k = 1 THEN RAdd(rows[1].v[j], One)
    ELSE RMul(CumProdAt(rows, k - 1, j), RAdd(rows[k].v[j], One))

plus1_cumprod(T) ==
    [cols |-> T.cols,
     rows |-> [k \in DOMAIN T.rows |->
                [date |-> T.rows[k].date,
                 v |-> [j \in DOMAIN T.cols |-> CumProdAt(T.rows, k, j)]]]]

\* ------------------------------------------------------------ collaborators
\* qtrader.utils.pandas.clean: a table with no missing value and the same
\* columns; here the rows that hold a missing value are removed.
clean(T) ==
    [T EXCEPT !.rows = SelectSeq(T.rows,
        LAMBDA r : \A j \in DOMAIN T.cols : ~IsNaN(r.v[j]))]

SimPattern == <<1, 0 - 2, 3>>

\* One simulated return, in hundredths, for the draw `seed`.
SimValue(seed, k, j) == Rat(SimPattern[((k + j + seed) % 3) + 1], 100)

\* Whether qtrader.simulation.VAR can fit a model of this order to T.
CanFit(T, order) == order >= 1 /\ Len(T.rows) > order

\* The simulated table qtrader.simulation.VAR returns: the shape of its
\* input; with `lead` the first `order` rows are missing.
Simulate(T, order, seed, lead) ==
    [cols |-> T.cols,
     rows |-> [k \in DOMAIN T.rows |->
                [date |-> T.rows[k].date,
                 v |-> [j \in DOMAIN T.cols |->
                         IF lead /\ k <= order THEN NaN ELSE SimValue(seed, k, j)]]]]

\* ----------------------------------------------------------------- Finance
\* pd.read_csv(root, index_col='Date', parse_dates=True): the file's table,
\* rows in file order.
read_csv(file) == [cols |-> file.cols, rows |-> file.rows]

\* Finance._csv, mutated: the cache's columns that were requested, in the
\* cache's own order.
Finance_csv_native(file, names) ==
    LET df == sort_index(read_csv(file))
    IN  Select(df, SelectSeq(df.cols, LAMBDA c : c \in Range(names)))

\* Finance._csv, mutated: every column of the cache.
Finance_csv_all(file, names) == sort_index(read_csv(file))

\* Finance._csv
Finance_csv(file, names) ==
    LET df == sort_index(read_csv(file))
        union == SelectSeq(names, LAMBDA ticker : ticker \in Range(df.cols))
    IN  Select(df, union)

\* The cache branch of Finance.Returns, mutated: returns derived from the
\* cached table as on the live path.
Returns_csv_pct(file, names, lo, hi) ==
    DropFirst(pct_change(loc(Finance_csv(file, names), lo, hi)))

\* The cache branch of Finance.Returns: cls._csv(csv, tickers).loc[start_date:end_date]
Returns_csv(file, names, lo, hi) == loc(Finance_csv(file, names), lo, hi)

\* The cache branch of Finance.Prices: cls._csv(csv, tickers).loc[start_date:end_date]
Prices_csv(file, names, lo, hi) == loc(Finance_csv(file, names), lo, hi)

\* data[ticker] = series on a dict: a new key goes last, a known key keeps
\* its place.
Put(data, ticker, series) ==
    IF \E j \in DOMAIN data : data[j].ticker = ticker
    THEN [j \in DOMAIN data |->
            IF data[j].ticker = ticker THEN [ticker |-> ticker, series |-> series]
            ELSE data[j]]
    ELSE Append(data, [ticker |-> ticker, series |-> series])

\* The live branch of Finance.Returns, mutated: the first row is kept.
Returns_pct_keep(P) == pct_change(P)

\* The live branch of Finance.Returns: cls.Prices(...).pct_change()[1:]
Returns_pct(P) == DropFirst(pct_change(P))

\* Finance.Prices, last two lines: pd.DataFrame(data), sorted, resampled.
Prices_frame(data, f) == resample_last(sort_index(DataFrame(data)), f)

\* --------------------------------------------------------------------- VAR
\* VAR.Returns, mutated: the realized returns go to the fit as they are.
VAR_df_raw(realized) == realized

\* VAR.Returns: df = clean(Finance.Returns(...))
VAR_df(realized) == clean(realized)

\* VAR.Prices: clean(returns)
VAR_cum_in(returns) == clean(returns)

\* VAR.Prices, mutated: the 1 is not added, clean(returns).cumprod().
RECURSIVE ProdAt(_, _, _)
ProdAt(rows, k, j) ==
    IF k = 1 THEN rows[1].v[j] ELSE RMul(ProdAt(rows, k - 1, j), rows[k].v[j])

VAR_prices_noplus(cleaned) ==
    [cleaned EXCEPT !.rows = [k \in DOMAIN cleaned.rows |->
        [cleaned.rows[k] EXCEPT !.v = [j \in DOMAIN cleaned.cols |->
            ProdAt(cleaned.rows, k, j)]]]]

\* VAR.Prices: (clean(returns) + 1).cumprod()
VAR_prices(cleaned) == plus1_cumprod(cleaned)

\* ------------------------------------------------------------------- state
VARIABLES
    op,             \* the entry point called
    tickers, start_date, end_date, freq, csv, model_order, return_params,
    pc,             \* the statement the call is at
    i,              \* Finance.Prices: position in `tickers`
    data,           \* Finance.Prices: the dict of fetched series
    fetched,        \* every quandl.get call so far: ticker and whether it succeeded
    warnings,       \* the tickers logger.warn was called for, in order
    prices,         \* what the inner Finance.Prices call returned
    realized,       \* what Finance.Returns returned
    calls,          \* the collaborator calls of VAR so far, in order
    fit_in,         \* the table handed to qtrader.simulation.VAR
    sim_df,         \* the simulated returns
    cum_in,         \* the table handed to cumprod
    result,         \* the table returned
    params,         \* whether model.params is returned with it
    outcome         \* "running", "ok", or the exception raised

args == <<op, tickers, start_date, end_date, freq, csv, model_order, return_params>>
vars == <<op, tickers, start_date, end_date, freq, csv, model_order, return_params,
          pc, i, data, fetched, warnings, prices, realized, calls, fit_in,
          sim_df, cum_in, result, params, outcome>>

FinanceOps == {"Finance.Prices", "Finance.Returns"}
VAROps == {"VAR.Returns", "VAR.Prices"}

\* A ticker list: distinct names (a Ticker Set holds unique identifiers), at
\* most MaxTickers of them.
TickerSeqs ==
    UNION {{s \in [1..n -> Tickers] : \A a, b \in 1..n : a # b => s[a] # s[b]}
           : n \in 0..MaxTickers}

NoCsv == [given |-> FALSE, cols |-> <<>>, rows |-> <<>>]

\* What the cache holds for a column on a date: a return in hundredths;
\* B has no value on day 2.
CsvValue(t, d) == IF t = "B" /\ d = 2 THEN NaN ELSE Rat(Quote(t, d) - 3, 100)

RECURSIVE Descending(_)
Descending(S) ==
    IF S = {} THEN <<>>
    ELSE LET m == CHOOSE x \in S : \A y \in S : x >= y
         IN  <<m>> \o Descending(S \ {m})

CsvFile(cols, ds, desc) ==
    LET order == IF desc THEN Descending(ds) ELSE Ascending(ds)
    IN  [given |-> TRUE,
         cols |-> cols,
         rows |-> [k \in DOMAIN order |->
                    [date |-> order[k],
                     v |-> [j \in DOMAIN cols |-> CsvValue(cols[j], order[k])]]]]

CsvColSeqs ==
    UNION {{s \in [1..n -> Tickers] : \A a, b \in 1..n : a # b => s[a] # s[b]}
           : n \in 0..Cardinality(Tickers)}

CsvDateSets == {{}, Dates, {d \in Dates : d % 2 = 0}, Dates \ {1}}

CsvFiles == {CsvFile(c, ds, desc) : c \in CsvColSeqs, ds \in CsvDateSets, desc \in BOOLEAN}

SmallCsvFiles == {CsvFile(<<"C", "A">>, Dates, TRUE), CsvFile(<<"B", "A">>, Dates, FALSE)}

Orders == (0 - 1)..MaxOrder

InitWith(ops, starts, ends, files) ==
    /\ op \in ops
    /\ tickers \in TickerSeqs
    /\ start_date \in starts
    /\ end_date \in ends
    /\ freq \in Freqs
    /\ csv \in files
    /\ model_order \in (IF op \in VAROps THEN Orders ELSE {2})
    /\ return_params \in (IF op \in VAROps THEN BOOLEAN ELSE {FALSE})
    /\ pc = "call"
    /\ i = 1
    /\ data = <<>>
    /\ fetched = <<>>
    /\ warnings = <<>>
    /\ prices = NoTable
    /\ realized = NoTable
    /\ calls = <<>>
    /\ fit_in = NoTable
    /\ sim_df = NoTable
    /\ cum_in = NoTable
    /\ result = NoTable
    /\ params = FALSE
    /\ outcome = "running"

Init == InitWith(FinanceOps \cup VAROps, {NoDate}, {NoDate} \cup Dates, {NoCsv} \cup SmallCsvFiles)

InitLive == InitWith(FinanceOps, {NoDate} \cup Dates, {NoDate} \cup Dates, {NoCsv})

InitCache == InitWith(FinanceOps, {NoDate} \cup Dates, {NoDate} \cup Dates, CsvFiles)

\* ----------------------------------------------------------------- actions
Live == <<i, data, fetched, warnings, prices>>
Synth == <<calls, fit_in, sim_df, cum_in, params>>

\* Finance.Prices with a cache: the cached table, returned at once.
PricesCsv ==
    /\ pc = "call"
    /\ op = "Finance.Prices"
    /\ csv.given
    /\ result' = Prices_csv(csv, tickers, start_date, end_date)
    /\ outcome' = "ok"
    /\ pc' = "done"
    /\ UNCHANGED <<args, Live, Synth, realized>>

\* Finance.Returns with a cache, called directly or by VAR.Returns.
ReturnsCsv ==
    /\ pc = "call"
    /\ op # "Finance.Prices"
    /\ csv.given
    /\ realized' = Returns_csv(csv, tickers, start_date, end_date)
    /\ IF op = "Finance.Returns"
       THEN /\ result' = realized'
            /\ outcome' = "ok"
            /\ pc' = "done"
       ELSE /\ pc' = "clean"
            /\ UNCHANGED <<result, outcome>>
    /\ UNCHANGED <<args, Live, Synth>>

\* Finance.Prices without a cache, called directly or by Finance.Returns:
\* data = {} and the loop over the tickers starts.
PricesBegin ==
    /\ pc = "call"
    /\ ~csv.given
    /\ data' = <<>>
    /\ i' = 1
    /\ pc' = "fetch"
    /\ UNCHANGED <<args, fetched, warnings, prices, realized, Synth, result, outcome>>

\* One turn of the loop in which Finance._get returns the ticker's frame.
PricesFetched ==
    /\ pc = "fetch"
    /\ i <= Len(tickers)
    /\ LET tmp_df == quandl_get(tickers[i], start_date, end_date)
       IN  data' = Put(data, tickers[i], _col(tmp_df))
    /\ fetched' = Append(fetched, [ticker |-> tickers[i], ok |-> TRUE])
    /\ i' = i + 1
    /\ UNCHANGED <<args, pc, warnings, prices, realized, Synth, result, outcome>>

\* The failing turn of the loop, mutated: a failed fetch is tried a second
\* time before the ticker is given up.
PricesFetchFailed_retry ==
    /\ pc = "fetch"
    /\ i <= Len(tickers)
    /\ fetched' = Append(fetched, [ticker |-> tickers[i], ok |-> FALSE])
    /\ warnings' = Append(warnings, tickers[i])
    /\ i' = IF fetched # <<>> /\ fetched[Len(fetched)] = [ticker |-> tickers[i], ok |-> FALSE]
            THEN i + 1 ELSE i
    /\ UNCHANGED <<args, pc, data, prices, realized, Synth, result, outcome>>

\* One turn of the loop in which quandl.get raises: Finance._get warns and
\* returns None, and the ticker is left out.
PricesFetchFailed ==
    /\ pc = "fetch"
    /\ i <= Len(tickers)
    /\ fetched' = Append(fetched, [ticker |-> tickers[i], ok |-> FALSE])
    /\ warnings' = Append(warnings, tickers[i])
    /\ i' = i + 1
    /\ UNCHANGED <<args, pc, data, prices, realized, Synth, result, outcome>>

\* After the loop, with at least one series: the frame is built, sorted and
\* resampled, and Finance.Prices returns it.
PricesFrame ==
    /\ pc = "fetch"
    /\ i > Len(tickers)
    /\ data # <<>>
    /\ prices' = Prices_frame(data, freq)
    /\ IF op = "Finance.Prices"
       THEN /\ result' = prices'
            /\ outcome' = "ok"
            /\ pc' = "done"
       ELSE /\ pc' = "pct"
            /\ UNCHANGED <<result, outcome>>
    /\ UNCHANGED <<args, i, data, fetched, warnings, realized, Synth>>

\* After the loop, with no series at all: pd.DataFrame({}) has no date
\* index and resample raises TypeError, which no caller catches.
PricesRaise ==
    /\ pc = "fetch"
    /\ i > Len(tickers)
    /\ data = <<>>
    /\ outcome' = "TypeError"
    /\ pc' = "done"
    /\ UNCHANGED <<args, Live, realized, Synth, result>>

\* Finance.Returns without a cache: the percentage change of the prices,
\* first row dropped.
ReturnsPct ==
    /\ pc = "pct"
    /\ realized' = Returns_pct(prices)
    /\ IF op = "Finance.Returns"
       THEN /\ result' = realized'
            /\ outcome' = "ok"
            /\ pc' = "done"
       ELSE /\ pc' = "clean"
            /\ UNCHANGED <<result, outcome>>
    /\ UNCHANGED <<args, Live, Synth>>

\* VAR.Returns: df = clean(Finance.Returns(...))
VARClean ==
    /\ pc = "clean"
    /\ fit_in' = VAR_df(realized)
    /\ calls' = Append(calls, "clean")
    /\ pc' = "fit"
    /\ UNCHANGED <<args, Live, realized, sim_df, cum_in, params, result, outcome>>

\* VAR.Returns: sim_df, model = _VAR(df, model_order, True), and the return.
VARFit ==
    /\ pc = "fit"
    /\ CanFit(fit_in, model_order)
    /\ calls' = Append(calls, "fit")
    /\ \E seed \in 0..MaxSeed, lead \in BOOLEAN :
           sim_df' = Simulate(fit_in, model_order, seed, lead)
    /\ IF op = "VAR.Returns"
       THEN /\ result' = sim_df'
            /\ params' = return_params
            /\ outcome' = "ok"
            /\ pc' = "done"
       ELSE /\ pc' = "reclean"
            /\ UNCHANGED <<result, params, outcome>>
    /\ UNCHANGED <<args, Live, realized, fit_in, cum_in>>

\* VAR.Returns: _VAR is called and cannot fit a model of this order.
VARFitRaise ==
    /\ pc = "fit"
    /\ ~CanFit(fit_in, model_order)
    /\ calls' = Append(calls, "fit")
    /\ outcome' = "ModelFitError"
    /\ pc' = "done"
    /\ UNCHANGED <<args, Live, realized, fit_in, sim_df, cum_in, params, result>>

\* VAR.Prices: clean(returns)
VARReclean ==
    /\ pc = "reclean"
    /\ cum_in' = VAR_cum_in(sim_df)
    /\ calls' = Append(calls, "clean")
    /\ pc' = "cumprod"
    /\ UNCHANGED <<args, Live, realized, fit_in, sim_df, params, result, outcome>>

\* VAR.Prices: prices = (... + 1).cumprod(), and the return.
VARCumprod ==
    /\ pc = "cumprod"
    /\ result' = VAR_prices(cum_in)
    /\ calls' = Append(calls, "cumprod")
    /\ params' = return_params
    /\ outcome' = "ok"
    /\ pc' = "done"
    /\ UNCHANGED <<args, Live, realized, fit_in, sim_df, cum_in>>

NextCache == PricesCsv \/ ReturnsCsv

NextLive ==
    \/ PricesBegin
    \/ PricesFetched
    \/ PricesFetchFailed
    \/ PricesFrame
    \/ PricesRaise
    \/ ReturnsPct

NextVAR == VARClean \/ VARFit \/ VARFitRaise \/ VARReclean \/ VARCumprod

Next == NextCache \/ NextLive \/ NextVAR

Spec == Init /\ [][Next]_vars

SpecLive == InitLive /\ [][NextLive]_vars

SpecCache == InitCache /\ [][NextCache]_vars

\* ------------------------------------------------------------------ claims
Done == pc = "done"

Succeeded(t) == \E k \in DOMAIN fetched : fetched[k].ticker = t /\ fetched[k].ok

Failed(t) == \E k \in DOMAIN fetched : fetched[k].ticker = t /\ ~fetched[k].ok

\* x comes before y in the sequence s (both occur in it).
Before(s, x, y) == IndexOf(s, x) < IndexOf(s, y)

\* C1: a live Finance.Prices call with a non-empty ticker list in which
\* every fetch failed ends in the error DataUnavailable.
C1_AllFailedIsDataUnavailable ==
    (/\ Done
     /\ op = "Finance.Prices"
     /\ ~csv.given
     /\ tickers # <<>>
     /\ \A k \in DOMAIN fetched : ~fetched[k].ok)
    => outcome = "DataUnavailable"

\* C2: in a VAR.Returns or VAR.Prices call with model_order <= 0 whose
\* realized returns were obtained, the fitting routine is never invoked and
\* the call ends in ModelFitError.
C2_BadOrderNeverFits ==
    (op \in VAROps /\ model_order <= 0 /\ calls # <<>>)
    => /\ \A k \in DOMAIN calls : calls[k] # "fit"
       /\ Done => outcome = "ModelFitError"

\* C3: with a cache, Finance.Prices and Finance.Returns return without
\* error a table whose column set is exactly the requested tickers that
\* are columns of the cache.
C3_CacheColumnsAreIntersection ==
    Done =>
        /\ outcome = "ok"
        /\ Range(result.cols) = Range(tickers) \cap Range(csv.cols)

C3_Witness ==
    /\ Done
    /\ Range(tickers) = {"A", "B", "C"}
    /\ Range(csv.cols) = {"A", "C"}
    /\ Range(result.cols) = {"A", "C"}
    /\ result.rows # <<>>

\* C4, as claimed: with a cache, any two returned tickers stand in the
\* output in the order they have among the cache's columns.
C4_CacheNativeOrder ==
    (Done /\ op = "Finance.Prices") =>
        \A x, y \in Range(result.cols) :
            x # y => (Before(result.cols, x, y) <=> Before(csv.cols, x, y))

\* C4, amended: with a cache, any two returned tickers stand in the output
\* in the order they have in the request, whatever their order among the
\* cache's columns.
C4_RequestedOrder ==
    (Done /\ op = "Finance.Prices") =>
        \A x, y \in Range(result.cols) :
            x # y => (Before(result.cols, x, y) <=> Before(tickers, x, y))

C4_Witness ==
    /\ Done
    /\ op = "Finance.Prices"
    /\ \E x, y \in Range(result.cols) :
          /\ x # y
          /\ Before(tickers, x, y)
          /\ Before(csv.cols, y, x)
          /\ Before(result.cols, x, y)

\* C5: a live Finance.Prices call with at least one successful fetch
\* fetches every requested ticker exactly once, in order, warns exactly
\* once per failed ticker, does not fail, and returns as columns the
\* fetched tickers in the order requested.
C5_PartialFetch ==
    (/\ Done
     /\ op = "Finance.Prices"
     /\ \E k \in DOMAIN fetched : fetched[k].ok)
    => /\ [k \in DOMAIN fetched |-> fetched[k].ticker] = tickers
       /\ warnings = SelectSeq(tickers, Failed)
       /\ outcome = "ok"
       /\ result.cols = SelectSeq(tickers, Succeeded)

C5_Witness ==
    /\ Done
    /\ op = "Finance.Prices"
    /\ Len(tickers) = 3
    /\ Failed(tickers[2])
    /\ result.cols = <<tickers[1], tickers[3]>>
    /\ warnings = <<tickers[2]>>

\* C6: when the inner Finance.Prices call of a live Finance.Returns call
\* yields a table with at least one row, the returns have one row less,
\* the same columns in the same order, and the prices' dates without the
\* first.
C6_ReturnsOneRowShorter ==
    (/\ Done
     /\ op = "Finance.Returns"
     /\ outcome = "ok"
     /\ Len(prices.rows) >= 1)
    => /\ Len(result.rows) = Len(prices.rows) - 1
       /\ result.cols = prices.cols
       /\ DatesOf(result) = Tail(DatesOf(prices))

C6_Witness ==
    /\ Done
    /\ op = "Finance.Returns"
    /\ outcome = "ok"
    /\ Len(prices.rows) = 3
    /\ Len(prices.cols) = 2
    /\ Len(result.rows) = 2

\* The price path rebuilt from the first row of P and the returns R:
\* price[1] = P[1], price[k] = price[k-1] * (1 + R[k-1]).
RECURSIVE Rebuilt(_, _, _, _)
Rebuilt(P, R, k, j) ==
    IF k = 1 THEN P.rows[1].v[j]
    ELSE RMul(Rebuilt(P, R, k - 1, j), RAdd(One, R.rows[k - 1].v[j]))

RoundTrips(P, R) ==
    \A k \in DOMAIN P.rows : \A j \in DOMAIN P.cols :
        Rebuilt(P, R, k, j) = P.rows[k].v[j]

C8_CumulativeProduct ==
    (Done /\ op = "VAR.Prices" /\ outcome = "ok") =>
        /\ result.cols = cum_in.cols
        /\ DatesOf(result) = DatesOf(cum_in)
        /\ \A k \in DOMAIN cum_in.rows : \A j \in DOMAIN cum_in.cols :
              result.rows[k].v[j] =
                  IF k = 1 THEN RAdd(One, cum_in.rows[1].v[j])
                  ELSE RMul(result.rows[k - 1].v[j], RAdd(One, cum_in.rows[k].v[j]))

\* Returns 0.01, -0.02, 0.03 give prices 1.01, 0.9898, 1.019494.
C8_Witness ==
    /\ Done
    /\ op = "VAR.Prices"
    /\ outcome = "ok"
    /\ Len(cum_in.rows) = 3
    /\ \E j \in DOMAIN cum_in.cols :
          /\ [k \in 1..3 |-> cum_in.rows[k].v[j]] = <<<<1, 100>>, <<0 - 1, 50>>, <<3, 100>>>>
          /\ [k \in 1..3 |-> result.rows[k].v[j]] =
                 <<<<101, 100>>, <<4949, 5000>>, <<509747, 500000>>>>

\* C9: with a cache, the live source is never called, and Finance.Prices
\* and Finance.Returns alike return the cache's rows whose date lies in
\* [start_date, end_date], oldest first, each value as the cache holds it
\* for that column and date: nothing is resampled and no change is taken.
C9_CacheFirst ==
    Done =>
        /\ fetched = <<>>
        /\ outcome = "ok"
        /\ DatesOf(result) =
              Ascending({csv.rows[k].date : k \in
                            {n \in DOMAIN csv.rows :
                                InRange(csv.rows[n].date, start_date, end_date)}})
        /\ \A k \in DOMAIN result.rows : \A j \in DOMAIN result.cols :
              /\ result.cols[j] \in Range(csv.cols)
              /\ \E n \in DOMAIN csv.rows :
                    /\ csv.rows[n].date = result.rows[k].date
                    /\ csv.rows[n].v[IndexOf(csv.cols, result.cols[j])] = result.rows[k].v[j]

C9_Witness ==
    /\ Done
    /\ op = "Finance.Returns"
    /\ freq = 2
    /\ start_date = 2
    /\ Len(csv.rows) = 3
    /\ csv.rows[1].date = 3
    /\ DatesOf(result) = <<2, 3>>
    /\ result.cols = <<"B", "A">>
    /\ HasNaN(result)

IsPrefix(s, t) == Len(s) <= Len(t) /\ \A k \in DOMAIN s : s[k] = t[k]

\* C10: in a VAR.Prices call the collaborators are called in the order
\* clean, fit, clean, cumprod; the table handed to the fit is the cleaned
\* realized returns, the table handed to cumprod is the cleaned simulated
\* returns, and neither holds a missing value.
C10_CleanBeforeFitAndCumprod ==
    op = "VAR.Prices" =>
        /\ IsPrefix(calls, <<"clean", "fit", "clean", "cumprod">>)
        /\ Len(calls) >= 2 => (fit_in = clean(realized) /\ ~HasNaN(fit_in))
        /\ Len(calls) >= 4 => (cum_in = clean(sim_df) /\ ~HasNaN(cum_in))

C10_Witness ==
    /\ Done
    /\ op = "VAR.Prices"
    /\ outcome = "ok"
    /\ calls = <<"clean", "fit", "clean", "cumprod">>
    /\ HasNaN(realized)
    /\ HasNaN(sim_df)
    /\ result.rows # <<>>

====
